---- MODULE Spec2Model ----
(***************************************************************************)
(* Model of cmd/server.go of prometheus-kemp-exporter: the `server`        *)
(* command.  serverRun checks the positional arguments, builds the Kemp    *)
(* client, starts the collector goroutine (fetch statistics, write them    *)
(* into the Prometheus gauges, sleep, repeat) and serves / and /metrics.   *)
(***************************************************************************)
EXTENDS Integers, Sequences, FiniteSets, TLC

(***************************************************************************)
(* Bounds of the model.                                                    *)
(***************************************************************************)
\* Spec: most records a fetched snapshot carries (virtual plus real servers),
\* and most passes of the collector loop that are started.
MaxServers == 2
MaxCycles == 2
\* SpecLong: the same two bounds of the longer runs over smaller snapshots.
MaxServersLong == 1
MaxCyclesLong == 3
\* SpecArgs: most passes started, over the snapshots of SpecLong.
MaxCyclesArgs == 1
\* SpecLive: the loop is not bounded; the count of passes stops at this cap.
MaxCyclesLive == 3

(***************************************************************************)
(* Values the environment supplies.                                        *)
(***************************************************************************)
\* Command lines (os.Args) the process may be started with.
CommandLines ==
    { <<"kemp-exporter", "server", "lb.example", "admin", "secret">>,
      <<"kemp-exporter", "server">>,
      <<"kemp-exporter", "server", "lb.example", "admin">>,
      <<"kemp-exporter", "server", "--debug", "lb.example", "admin">>,
      <<"kemp-exporter", "server", "lb.example", "admin", "secret", "extra">> }

\* Command lines with flags of the server command before, between and after
\* the positional arguments.
CommandLinesWithFlags ==
    { <<"kemp-exporter", "server", "lb.example", "admin", "secret">>,
      <<"kemp-exporter", "server", "--debug", "lb.example", "admin", "secret">>,
      <<"kemp-exporter", "server", "lb.example", "--port", "9000", "admin", "secret">>,
      <<"kemp-exporter", "server", "lb.example", "admin", "secret", "--wait", "5">>,
      <<"kemp-exporter", "server", "--wait", "5", "lb.example", "admin">> }

\* (address, port) of the servers the appliance may report.
ServerKeys == { <<"10.0.0.1", 80>>, <<"10.0.0.1", 443>>, <<"10.0.0.2", 80>> }

\* A snapshot's numbers all derive from its seed, the record's place and the
\* field, so that no two numbers of a snapshot agree.
Seeds == {100, 150}

ServerStat(key, base) ==
    [Address |-> key[1], Port |-> key[2],
     TotalConnections |-> base, TotalPackets |-> base + 1,
     TotalBytes |-> base + 2, ActiveConnections |-> base + 3,
     ConnectionsPerSec |-> base + 4, BytesRead |-> base + 5,
     BytesWritten |-> base + 6]

TotalsOf(seed) ==
    [ConnectionsPerSec |-> seed \div 20, BytesPerSec |-> seed * 10,
     PacketsPerSec |-> seed \div 2]

SeqsUpTo(S, n) == UNION { [1..k -> S] : k \in 0..n }

Statistics(seed, vkeys, rkeys) ==
    [Totals |-> TotalsOf(seed),
     VirtualServers |->
        [i \in 1..Len(vkeys) |-> ServerStat(vkeys[i], seed + 10 * (i - 1))],
     RealServers |->
        [i \in 1..Len(rkeys) |-> ServerStat(rkeys[i], 2 * seed + 10 * (i - 1))]]

\* kemp.Statistics values GetStatistics may return: records in any order,
\* a key possibly several times.
KeyLists(n) ==
    { kk \in SeqsUpTo(ServerKeys, n) \X SeqsUpTo(ServerKeys, n) :
        Len(kk[1]) + Len(kk[2]) <= n }

SnapshotsOf(n) ==
    { Statistics(seed, kk[1], kk[2]) : seed \in Seeds, kk \in KeyLists(n) }

Snapshots == SnapshotsOf(MaxServers)

\* The snapshots of an appliance with one server address and port, reported
\* as a virtual server, as a real server or not at all.
SnapshotsLive ==
    { st \in SnapshotsOf(MaxServersLong) :
        \A i \in 1..Len(st.VirtualServers \o st.RealServers) :
            (st.VirtualServers \o st.RealServers)[i].Port = 443 }
SnapshotsLong == SnapshotsOf(MaxServersLong)

(***************************************************************************)
(* Library conversions the update uses.                                    *)
(***************************************************************************)
DigitChars == <<"0", "1", "2", "3", "4", "5", "6", "7", "8", "9">>

RECURSIVE UintString(_)
UintString(n) ==
    IF n < 10 THEN DigitChars[n + 1]
    ELSE UintString(n \div 10) \o DigitChars[(n % 10) + 1]

\* strconv.Itoa: the decimal string of an int.
Itoa(n) == IF n < 0 THEN "-" \o UintString(-n) ELSE UintString(n)

\* Bits of a float64 significand.
MantissaBits == 53

RECURSIVE BitLen(_)
BitLen(n) == IF n = 0 THEN 0 ELSE 1 + BitLen(n \div 2)

\* m * 2^e with the factors of two moved into the exponent.
RECURSIVE Normalize(_, _)
Normalize(m, e) ==
    IF m = 0 THEN [mant |-> 0, exp |-> 0]
    ELSE IF m % 2 = 0 THEN Normalize(m \div 2, e + 1)
    ELSE [mant |-> m, exp |-> e]

\* a, a natural number, rounded to `bits` significant bits (ties to even).
RoundToBits(a, bits) ==
    IF BitLen(a) <= bits THEN Normalize(a, 0)
    ELSE LET shift == BitLen(a) - bits
             q == a \div (2 ^ shift)
             r == a % (2 ^ shift)
             half == 2 ^ (shift - 1)
             up == r > half \/ (r = half /\ q % 2 = 1)
         IN  Normalize(IF up THEN q + 1 ELSE q, shift)

\* float64(n) of an int n: sign, odd significand and binary exponent.
Float64(n) ==
    LET a == IF n < 0 THEN -n ELSE n
        m == RoundToBits(a, MantissaBits)
    IN  [neg |-> n < 0, mant |-> m.mant, exp |-> m.exp]

\* The number a float64 stands for.
Float64Value(f) == (IF f.neg THEN -1 ELSE 1) * f.mant * (2 ^ f.exp)

(***************************************************************************)
(* Command line.                                                           *)
(***************************************************************************)
\* Flags of serverCmd that take a value, and the boolean one.
ValueFlags == {"--port", "--wait"}
BoolFlags == {"--debug"}

\* pflag: the arguments left once the flags (interspersed) are taken out.
RECURSIVE PflagArgs(_)
PflagArgs(toks) ==
    IF toks = <<>> THEN <<>>
    ELSE IF Head(toks) = "--" THEN Tail(toks)
    ELSE IF Head(toks) \in BoolFlags THEN PflagArgs(Tail(toks))
    ELSE IF Head(toks) \in ValueFlags
         THEN IF Len(toks) >= 2 THEN PflagArgs(Tail(Tail(toks))) ELSE <<>>
    ELSE <<Head(toks)>> \o PflagArgs(Tail(toks))

\* cmd.Flags().Args(): what follows the command name, flags removed.
CobraArgs(argv) == PflagArgs(SubSeq(argv, 3, Len(argv)))

\* flag.Args() of the standard flag package after flag.Parse(): parsing of
\* os.Args[1:] stops at the first non-flag argument, the command name.
FlagArgs(argv) == SubSeq(argv, 2, Len(argv))

\* flag.Arg(i): the i-th (from 0) remaining argument, "" when there is none.
FlagArg(argv, i) ==
    IF i + 1 <= Len(FlagArgs(argv)) THEN FlagArgs(argv)[i + 1] ELSE ""

\* The value of the boolean flag --debug.
DebugFlag(argv) == \E i \in 3..Len(argv) : argv[i] = "--debug"

\* kemp.Config handed to kemp.NewClient.
ClientConfig(argv) ==
    [Endpoint |-> FlagArg(argv, 1), User |-> FlagArg(argv, 2),
     Password |-> FlagArg(argv, 3), Debug |-> DebugFlag(argv)]

(***************************************************************************)
(* The registry writes of one update cycle, in program order.              *)
(***************************************************************************)
GaugeNames == {"connsPerSec", "bytesPerSec", "packetsPerSec"}

VirtualServerVecs ==
    {"virtualServerTotalConnections", "virtualServerTotalPackets",
     "virtualServerTotalBytes", "virtualServerActiveConnections",
     "virtualServerConnsPerSec", "virtualServerBytesRead",
     "virtualServerBytesWritten"}

RealServerVecs ==
    {"realServerTotalConnections", "realServerTotalPackets",
     "realServerTotalBytes", "realServerActiveConnections",
     "realServerConnsPerSec", "realServerBytesRead",
     "realServerBytesWritten"}

VecNames == VirtualServerVecs \cup RealServerVecs

\* Mutant of LabelValues: the port label is left empty.
LabelValuesAddressOnly(r) == <<r.Address, "">>

\* The label values of a server record: address and decimal port.
LabelValues(r) == <<r.Address, Itoa(r.Port)>>

GaugeWrite(g, n) == [labeled |-> FALSE, name |-> g, lvs |-> <<>>, val |-> Float64(n)]
VecWrite(v, r, n) == [labeled |-> TRUE, name |-> v, lvs |-> LabelValues(r), val |-> Float64(n)]

TotalsWrites(t) ==
    << GaugeWrite("connsPerSec", t.ConnectionsPerSec),
       GaugeWrite("bytesPerSec", t.BytesPerSec),
       GaugeWrite("packetsPerSec", t.PacketsPerSec) >>

VirtualServerWrites(vs) ==
    << VecWrite("virtualServerTotalConnections", vs, vs.TotalConnections),
       VecWrite("virtualServerTotalPackets", vs, vs.TotalPackets),
       VecWrite("virtualServerTotalBytes", vs, vs.TotalBytes),
       VecWrite("virtualServerActiveConnections", vs, vs.ActiveConnections),
       VecWrite("virtualServerConnsPerSec", vs, vs.ConnectionsPerSec),
       VecWrite("virtualServerBytesRead", vs, vs.BytesRead),
       VecWrite("virtualServerBytesWritten", vs, vs.BytesWritten) >>

\* Mutant of RealServerWrites: the last line was copied from the virtual
\* server loop and still names its vector.
RealServerWritesCopied(rs) ==
    << VecWrite("realServerTotalConnections", rs, rs.TotalConnections),
       VecWrite("realServerTotalPackets", rs, rs.TotalPackets),
       VecWrite("realServerTotalBytes", rs, rs.TotalBytes),
       VecWrite("realServerActiveConnections", rs, rs.ActiveConnections),
       VecWrite("realServerConnsPerSec", rs, rs.ConnectionsPerSec),
       VecWrite("realServerBytesRead", rs, rs.BytesRead),
       VecWrite("virtualServerBytesWritten", rs, rs.BytesWritten) >>

RealServerWrites(rs) ==
    << VecWrite("realServerTotalConnections", rs, rs.TotalConnections),
       VecWrite("realServerTotalPackets", rs, rs.TotalPackets),
       VecWrite("realServerTotalBytes", rs, rs.TotalBytes),
       VecWrite("realServerActiveConnections", rs, rs.ActiveConnections),
       VecWrite("realServerConnsPerSec", rs, rs.ConnectionsPerSec),
       VecWrite("realServerBytesRead", rs, rs.BytesRead),
       VecWrite("realServerBytesWritten", rs, rs.BytesWritten) >>

\* Mutant of VirtualServersWrites: the loop stops one record short.
RECURSIVE VirtualServersWritesSkipLast(_)
VirtualServersWritesSkipLast(servers) ==
    IF Len(servers) <= 1 THEN <<>>
    ELSE VirtualServerWrites(Head(servers))
            \o VirtualServersWritesSkipLast(Tail(servers))

\* Mutant of VirtualServersWrites: the records are taken last to first.
RECURSIVE VirtualServersWritesReversed(_)
VirtualServersWritesReversed(servers) ==
    IF servers = <<>> THEN <<>>
    ELSE VirtualServersWritesReversed(Tail(servers))
            \o VirtualServerWrites(Head(servers))

RECURSIVE VirtualServersWrites(_)
VirtualServersWrites(servers) ==
    IF servers = <<>> THEN <<>>
    ELSE VirtualServerWrites(Head(servers)) \o VirtualServersWrites(Tail(servers))

RECURSIVE RealServersWrites(_)
RealServersWrites(servers) ==
    IF servers = <<>> THEN <<>>
    ELSE RealServerWrites(Head(servers)) \o RealServersWrites(Tail(servers))

\* Every Set of one pass of the loop body, in the order the code makes them.
UpdateWrites(st) ==
    TotalsWrites(st.Totals) \o VirtualServersWrites(st.VirtualServers)
        \o RealServersWrites(st.RealServers)

(***************************************************************************)
(* State.                                                                  *)
(***************************************************************************)
VARIABLES
    osArgs,       \* the command line
    mainPc,       \* where serverRun is: "args", "start", "listen", "serving"
    exited,       \* the process has exited
    exitCode,     \* its exit status, once exited
    output,       \* what was printed or logged
    client,       \* the kemp client's configuration, once built
    handlers,     \* the paths with an HTTP handler installed
    scraped,      \* a scrape of /metrics has been answered
    collPc,       \* the collector goroutine: "NotStarted", "Idle", "Fetching", "Updating", "Sleeping"
    cycle,        \* passes of the loop started so far
    statistics,   \* the snapshot of the current pass
    pending,      \* the writes of the current pass still to make, in order
    gauges,       \* value of each unlabeled gauge
    gaugeVecs,    \* per GaugeVec: label values -> value, for the children created
    committed,    \* history: the registry as the last completed pass left it
    previous,     \* history: the snapshot of the pass before the current one
    applied       \* history: the servers of the snapshots of the completed passes

vars == <<osArgs, mainPc, exited, exitCode, output, client, handlers, scraped,
          collPc, cycle, statistics, pending, gauges, gaugeVecs,
          committed, previous, applied>>

mainVars == <<mainPc, client, handlers>>
collVars == <<collPc, cycle, statistics, pending>>
registry == <<gauges, gaugeVecs>>
procVars == <<exited, exitCode, output>>
history == <<committed, previous, applied>>

NoClient == [Endpoint |-> "", User |-> "", Password |-> "", Debug |-> FALSE]
NoStatistics == [Totals |-> [ConnectionsPerSec |-> 0, BytesPerSec |-> 0, PacketsPerSec |-> 0],
                 VirtualServers |-> <<>>, RealServers |-> <<>>]

\* prometheus.NewGauge / NewGaugeVec: gauges start at 0, vectors without children.
ZeroValue == Float64(0)
NewRegistryGauges == [g \in GaugeNames |-> ZeroValue]
NewRegistryVecs == [v \in VecNames |-> <<>>]

\* The (address, port) pairs of a sequence of server records.
ServersOf(servers) ==
    { <<servers[i].Address, servers[i].Port>> : i \in 1..Len(servers) }

NoneApplied == [VirtualServers |-> {}, RealServers |-> {}]

\* The state when serverRun is entered with one of the given command lines.
InitOf(commandLines) ==
    /\ osArgs \in commandLines
    /\ mainPc = "args"
    /\ exited = FALSE
    /\ exitCode = 0
    /\ output = {}
    /\ client = NoClient
    /\ handlers = {}
    /\ scraped = FALSE
    /\ collPc = "NotStarted"
    /\ cycle = 0
    /\ statistics = NoStatistics
    /\ pending = <<>>
    /\ gauges = NewRegistryGauges
    /\ gaugeVecs = NewRegistryVecs
    /\ committed = <<NewRegistryGauges, NewRegistryVecs>>
    /\ previous = NoStatistics
    /\ applied = NoneApplied

Init == InitOf(CommandLines)

\* os.Exit(code): the whole process, every goroutine included, stops.
Exit(code) ==
    /\ exited' = TRUE
    /\ exitCode' = code

(***************************************************************************)
(* serverRun, the main goroutine.                                          *)
(***************************************************************************)
\* Mutant of CheckArgs: only too few arguments are refused.
CheckArgsTooFewOnly ==
    /\ ~exited /\ mainPc = "args"
    /\ IF Len(CobraArgs(osArgs)) < 3
       THEN /\ Exit(1)
            /\ output' = output \cup {"usage"}
            /\ UNCHANGED mainPc
       ELSE /\ mainPc' = "start"
            /\ UNCHANGED procVars
    /\ UNCHANGED <<osArgs, client, handlers, scraped, collVars, registry, history>>

\* The argument count check: usage and exit status 1 unless there are three.
CheckArgs ==
    /\ ~exited /\ mainPc = "args"
    /\ IF Len(CobraArgs(osArgs)) /= 3
       THEN /\ Exit(1)
            /\ output' = output \cup {"usage"}
            /\ UNCHANGED mainPc
       ELSE /\ mainPc' = "start"
            /\ UNCHANGED procVars
    /\ UNCHANGED <<osArgs, client, handlers, scraped, collVars, registry, history>>

\* kemp.NewClient, the go statement that starts the collector, the two
\* handlers and the log line.
StartServer ==
    /\ ~exited /\ mainPc = "start"
    /\ client' = ClientConfig(osArgs)
    /\ collPc' = "Idle"
    /\ handlers' = {"/", "/metrics"}
    /\ output' = output \cup {"Listening on port"}
    /\ mainPc' = "listen"
    /\ UNCHANGED <<osArgs, exited, exitCode, scraped, cycle, statistics, pending,
                   registry, history>>

\* http.ListenAndServe binds the port and serves.
ListenAndServe ==
    /\ ~exited /\ mainPc = "listen"
    /\ mainPc' = "serving"
    /\ UNCHANGED <<osArgs, procVars, client, handlers, scraped, collVars,
                   registry, history>>

\* http.ListenAndServe returns an error: the error is dropped, serverRun
\* returns and the process ends with it.
ListenAndServeFails ==
    /\ ~exited /\ mainPc = "listen"
    /\ Exit(0)
    /\ UNCHANGED <<osArgs, output, mainVars, scraped, collVars, registry, history>>

(***************************************************************************)
(* The HTTP handlers, one goroutine per request.                           *)
(***************************************************************************)
\* What prometheus.Handler() gathers: the value of every gauge and of every
\* child of every vector.
Gather == <<gauges, gaugeVecs>>

\* Mutant of ServeMetrics: the unlabeled gauges are reset once gathered.
ServeMetricsReset ==
    /\ ~exited /\ mainPc = "serving" /\ "/metrics" \in handlers
    /\ scraped' = TRUE
    /\ gauges' = NewRegistryGauges
    /\ UNCHANGED <<osArgs, procVars, mainVars, collVars, gaugeVecs, history>>

\* Mutant of ServeMetrics: the handler takes a lock the collector holds from
\* the call of GetStatistics to the last write of the pass.
ServeMetricsWaits ==
    /\ ~exited /\ mainPc = "serving" /\ "/metrics" \in handlers
    /\ collPc \notin {"Fetching", "Updating"}
    /\ scraped' = TRUE
    /\ UNCHANGED <<osArgs, procVars, mainVars, collVars, registry, history>>

\* GET /metrics: the registry is gathered and written out.
ServeMetrics ==
    /\ ~exited /\ mainPc = "serving" /\ "/metrics" \in handlers
    /\ scraped' = TRUE
    /\ UNCHANGED <<osArgs, procVars, mainVars, collVars, registry, history>>

\* GET /: an empty response.
ServeRoot ==
    /\ ~exited /\ mainPc = "serving" /\ "/" \in handlers
    /\ UNCHANGED vars

(***************************************************************************)
(* The collector goroutine.                                                *)
(***************************************************************************)
\* Mutant of CallGetStatistics: the unlabeled gauges are reset before the fetch.
CallGetStatisticsReset(maxCycles) ==
    /\ ~exited /\ collPc \in {"Idle", "Sleeping"}
    /\ cycle < maxCycles
    /\ collPc' = "Fetching"
    /\ cycle' = cycle + 1
    /\ gauges' = NewRegistryGauges
    /\ UNCHANGED <<osArgs, procVars, mainVars, scraped, statistics, pending,
                   gaugeVecs, history>>

\* Mutant of CallGetStatistics: the gauges are set to -1 while the fetch is
\* outstanding.
CallGetStatisticsMarks(maxCycles) ==
    /\ ~exited /\ collPc \in {"Idle", "Sleeping"}
    /\ cycle < maxCycles
    /\ collPc' = "Fetching"
    /\ cycle' = cycle + 1
    /\ gauges' = [g \in GaugeNames |-> Float64(-1)]
    /\ UNCHANGED <<osArgs, procVars, mainVars, scraped, statistics, pending,
                   gaugeVecs, history>>

\* Mutant of CallGetStatistics: a ticker starts the next pass, whether or not
\* the update of the pass before it is done.
CallGetStatisticsTicker(maxCycles) ==
    /\ ~exited /\ collPc \in {"Idle", "Sleeping", "Updating"}
    /\ cycle < maxCycles
    /\ collPc' = "Fetching"
    /\ cycle' = cycle + 1
    /\ UNCHANGED <<osArgs, procVars, mainVars, scraped, statistics, pending,
                   registry, history>>

\* Mutant of CallGetStatistics: a call that has not returned is given up and
\* made again.
CallGetStatisticsRetry(maxCycles) ==
    /\ ~exited /\ collPc \in {"Idle", "Sleeping", "Fetching"}
    /\ cycle < maxCycles
    /\ collPc' = "Fetching"
    /\ cycle' = cycle + 1
    /\ UNCHANGED <<osArgs, procVars, mainVars, scraped, statistics, pending,
                   registry, history>>

\* The loop reaches client.GetStatistics(): at its start, or when
\* time.Sleep returns.
CallGetStatistics(maxCycles) ==
    /\ ~exited /\ collPc \in {"Idle", "Sleeping"}
    /\ cycle < maxCycles
    /\ collPc' = "Fetching"
    /\ cycle' = cycle + 1
    /\ UNCHANGED <<osArgs, procVars, mainVars, scraped, statistics, pending,
                   registry, history>>

\* Mutant of CallGetStatisticsLive: the for statement is missing, the
\* goroutine makes one pass and returns.
CallGetStatisticsLiveOnce ==
    /\ ~exited /\ collPc = "Idle"
    /\ collPc' = "Fetching"
    /\ cycle' = IF cycle < MaxCyclesLive THEN cycle + 1 ELSE cycle
    /\ UNCHANGED <<osArgs, procVars, mainVars, scraped, statistics, pending,
                   registry, history>>

\* The loop reaches client.GetStatistics(), each time time.Sleep returns:
\* the for statement has no condition.  Passes are counted up to the cap.
CallGetStatisticsLive ==
    /\ ~exited /\ collPc \in {"Idle", "Sleeping"}
    /\ collPc' = "Fetching"
    /\ cycle' = IF cycle < MaxCyclesLive THEN cycle + 1 ELSE cycle
    /\ UNCHANGED <<osArgs, procVars, mainVars, scraped, statistics, pending,
                   registry, history>>

\* Mutant of GetStatisticsReturns: every vector is Reset before the update.
GetStatisticsReturnsReset(snapshots) ==
    /\ ~exited /\ collPc = "Fetching"
    /\ \E st \in snapshots :
         /\ statistics' = st
         /\ pending' = UpdateWrites(st)
    /\ previous' = statistics
    /\ collPc' = "Updating"
    /\ gaugeVecs' = NewRegistryVecs
    /\ UNCHANGED <<osArgs, procVars, mainVars, scraped, cycle, gauges, committed,
                   applied>>

\* GetStatistics returns a snapshot.
GetStatisticsReturns(snapshots) ==
    /\ ~exited /\ collPc = "Fetching"
    /\ \E st \in snapshots :
         /\ statistics' = st
         /\ pending' = UpdateWrites(st)
    /\ previous' = statistics
    /\ collPc' = "Updating"
    /\ UNCHANGED <<osArgs, procVars, mainVars, scraped, cycle, registry, committed,
                   applied>>

\* Mutant of GetStatisticsFails: the error is logged and the pass carries on
\* with the zero statistics the failed call returned.
GetStatisticsFailsNoExit ==
    /\ ~exited /\ collPc = "Fetching"
    /\ output' = output \cup {"Error getting statistics"}
    /\ statistics' = NoStatistics
    /\ pending' = UpdateWrites(NoStatistics)
    /\ previous' = statistics
    /\ collPc' = "Updating"
    /\ UNCHANGED <<osArgs, exited, exitCode, mainVars, scraped, cycle, registry,
                   committed, applied>>

\* GetStatistics returns an error: log it and exit with status 1.
GetStatisticsFails ==
    /\ ~exited /\ collPc = "Fetching"
    /\ output' = output \cup {"Error getting statistics"}
    /\ Exit(1)
    /\ UNCHANGED <<osArgs, mainVars, scraped, collVars, registry, history>>

\* The write the collector is at.
CurrentWrite == Head(pending)

\* After a Set: the next write, or time.Sleep once the last one is done.
NextWrite ==
    /\ pending' = Tail(pending)
    /\ collPc' = IF Tail(pending) = <<>> THEN "Sleeping" ELSE collPc
    /\ committed' = IF Tail(pending) = <<>> THEN <<gauges', gaugeVecs'>> ELSE committed
    /\ applied' =
         IF Tail(pending) = <<>>
         THEN [VirtualServers |->
                   applied.VirtualServers \cup ServersOf(statistics.VirtualServers),
               RealServers |->
                   applied.RealServers \cup ServersOf(statistics.RealServers)]
         ELSE applied

\* a + b of two float64 values.
Float64Add(a, b) == Float64(Float64Value(a) + Float64Value(b))

\* Mutant of SetGauge: Add in place of Set.
SetGaugeAdd ==
    /\ ~exited /\ collPc = "Updating"
    /\ ~CurrentWrite.labeled
    /\ gauges' = [gauges EXCEPT ![CurrentWrite.name] = Float64Add(@, CurrentWrite.val)]
    /\ UNCHANGED gaugeVecs
    /\ NextWrite
    /\ UNCHANGED <<osArgs, procVars, mainVars, scraped, cycle, statistics, previous>>

\* Gauge.Set on one of the three unlabeled gauges.
SetGauge ==
    /\ ~exited /\ collPc = "Updating"
    /\ ~CurrentWrite.labeled
    /\ gauges' = [gauges EXCEPT ![CurrentWrite.name] = CurrentWrite.val]
    /\ UNCHANGED gaugeVecs
    /\ NextWrite
    /\ UNCHANGED <<osArgs, procVars, mainVars, scraped, cycle, statistics, previous>>

\* The write's vector has a child for the write's label values.
HasChild == CurrentWrite.lvs \in DOMAIN gaugeVecs[CurrentWrite.name]

\* GaugeVec.WithLabelValues for label values the vector has no child for:
\* the child is created, with value 0.  (For label values it has a child
\* for, the call only looks the child up: that is part of SetChild.)
WithLabelValues ==
    /\ ~exited /\ collPc = "Updating"
    /\ CurrentWrite.labeled /\ ~HasChild
    /\ gaugeVecs' = [gaugeVecs EXCEPT
                       ![CurrentWrite.name] = @ @@ (CurrentWrite.lvs :> ZeroValue)]
    /\ UNCHANGED <<osArgs, procVars, mainVars, scraped, collPc, cycle, statistics,
                   pending, gauges, history>>

\* Mutant of SetChild: Add in place of Set.
SetChildAdd ==
    /\ ~exited /\ collPc = "Updating"
    /\ CurrentWrite.labeled /\ HasChild
    /\ gaugeVecs' = [gaugeVecs EXCEPT
                       ![CurrentWrite.name][CurrentWrite.lvs] =
                           Float64Add(@, CurrentWrite.val)]
    /\ UNCHANGED gauges
    /\ NextWrite
    /\ UNCHANGED <<osArgs, procVars, mainVars, scraped, cycle, statistics, previous>>

\* Mutant of SetChild: the store is not atomic, a reader can find the new
\* significand beside the old exponent.
SetChildTorn ==
    /\ ~exited /\ collPc = "Updating"
    /\ CurrentWrite.labeled /\ HasChild
    /\ \E torn \in BOOLEAN :
         gaugeVecs' = [gaugeVecs EXCEPT
                         ![CurrentWrite.name][CurrentWrite.lvs] =
                             IF torn THEN [CurrentWrite.val EXCEPT !.exp =
                                   gaugeVecs[CurrentWrite.name][CurrentWrite.lvs].exp]
                             ELSE CurrentWrite.val]
    /\ UNCHANGED gauges
    /\ NextWrite
    /\ UNCHANGED <<osArgs, procVars, mainVars, scraped, cycle, statistics, previous>>

\* Gauge.Set on the child WithLabelValues returned.
SetChild ==
    /\ ~exited /\ collPc = "Updating"
    /\ CurrentWrite.labeled /\ HasChild
    /\ gaugeVecs' = [gaugeVecs EXCEPT
                       ![CurrentWrite.name][CurrentWrite.lvs] = CurrentWrite.val]
    /\ UNCHANGED gauges
    /\ NextWrite
    /\ UNCHANGED <<osArgs, procVars, mainVars, scraped, cycle, statistics, previous>>

Main ==
    \/ CheckArgs
    \/ StartServer
    \/ ListenAndServe
    \/ ListenAndServeFails

Handlers ==
    \/ ServeMetrics
    \/ ServeRoot

Collector(snapshots, maxCycles) ==
    \/ CallGetStatistics(maxCycles)
    \/ GetStatisticsReturns(snapshots)
    \/ GetStatisticsFails
    \/ SetGauge
    \/ WithLabelValues
    \/ SetChild

Next == Main \/ Handlers \/ Collector(Snapshots, MaxCycles)

Spec == Init /\ [][Next]_vars

NextLong == Main \/ Handlers \/ Collector(SnapshotsLong, MaxCyclesLong)

SpecLong == Init /\ [][NextLong]_vars

\* The collector with its loop unbounded, as the code has it.  The Go
\* scheduler runs a goroutine that can run, the calls and the sleep return:
\* the collector is weakly fair.
CollectorLive ==
    \/ CallGetStatisticsLive
    \/ GetStatisticsReturns(SnapshotsLive)
    \/ GetStatisticsFails
    \/ SetGauge
    \/ WithLabelValues
    \/ SetChild

NextLive == Main \/ Handlers \/ CollectorLive

SpecLive == Init /\ [][NextLive]_vars /\ WF_vars(CollectorLive)

\* The program started with flags on the command line.
InitArgs == InitOf(CommandLinesWithFlags)

NextArgs == Main \/ Handlers \/ Collector(SnapshotsLong, MaxCyclesArgs)

SpecArgs == InitArgs /\ [][NextArgs]_vars

(***************************************************************************)
(* Vocabulary of the properties: what the mapping rules expect, stated     *)
(* independently of the write lists above.                                 *)
(***************************************************************************)
\* The decimal strings of the ports in use.
DecimalOf == (80 :> "80") @@ (443 :> "443")

\* The label key a record is expected under.
ExpectedLabels(r) == <<r.Address, DecimalOf[r.Port]>>

ExpectedTotal(g, t) ==
    CASE g = "connsPerSec" -> t.ConnectionsPerSec
      [] g = "bytesPerSec" -> t.BytesPerSec
      [] g = "packetsPerSec" -> t.PacketsPerSec

\* The field of a record a vector is expected to carry.
ExpectedField(v, r) ==
    CASE v \in {"virtualServerTotalConnections", "realServerTotalConnections"} -> r.TotalConnections
      [] v \in {"virtualServerTotalPackets", "realServerTotalPackets"} -> r.TotalPackets
      [] v \in {"virtualServerTotalBytes", "realServerTotalBytes"} -> r.TotalBytes
      [] v \in {"virtualServerActiveConnections", "realServerActiveConnections"} -> r.ActiveConnections
      [] v \in {"virtualServerConnsPerSec", "realServerConnsPerSec"} -> r.ConnectionsPerSec
      [] v \in {"virtualServerBytesRead", "realServerBytesRead"} -> r.BytesRead
      [] v \in {"virtualServerBytesWritten", "realServerBytesWritten"} -> r.BytesWritten

\* The records of a snapshot a vector is fed from.
RecordsFor(v, st) ==
    IF v \in VirtualServerVecs THEN st.VirtualServers ELSE st.RealServers

\* The label keys of a sequence of records.
KeysOf(servers) == { ExpectedLabels(servers[i]) : i \in 1..Len(servers) }

\* The places of a key in a sequence of records.
PlacesOf(servers, k) == { i \in 1..Len(servers) : ExpectedLabels(servers[i]) = k }

\* servers[i] is the last record of its key.
IsLast(servers, i) ==
    \A j \in (i + 1)..Len(servers) :
        ExpectedLabels(servers[j]) /= ExpectedLabels(servers[i])

\* The numbers a snapshot carries for a vector at a key.
NumbersFor(v, st, k) ==
    { ExpectedField(v, RecordsFor(v, st)[i]) : i \in PlacesOf(RecordsFor(v, st), k) }

\* The gauges and the vectors of the registry as the last completed pass left them.
committedGauges == committed[1]
committedVecs == committed[2]

\* The fetch error was logged.
FetchErrorLogged == "Error getting statistics" \in output

\* The positional argument count is wrong.
WrongArgCount == Len(CobraArgs(osArgs)) /= 3

(***************************************************************************)
(* Properties.                                                             *)
(***************************************************************************)
\* C1: a fetch error ends the process in that pass with status 1, before any
\* write of the pass: the registry is as the last completed pass left it (as
\* created, if none completed), and no step is ever taken after the exit.
C1_FatalFetchError ==
    [][ /\ ~exited
        /\ FetchErrorLogged' =>
             /\ exited' /\ exitCode' = 1
             /\ collPc' = "Fetching" /\ pending' = <<>>
             /\ <<gauges', gaugeVecs'>> = committed' ]_vars

C1_Witness ==
    /\ FetchErrorLogged /\ exited /\ cycle = 2
    /\ committedGauges /= NewRegistryGauges

\* C9: with a positional argument count other than three the only step is the
\* exit with usage and status 1: no client, no collector, no fetch, no
\* registry write, no handler.
C9_WrongArgCount ==
    [][ WrongArgCount =>
          /\ exited' /\ exitCode' = 1 /\ "usage" \in output'
          /\ client' = NoClient /\ collPc' = "NotStarted" /\ cycle' = 0
          /\ handlers' = {} /\ ~scraped'
          /\ <<gauges', gaugeVecs'>> = <<NewRegistryGauges, NewRegistryVecs>> ]_vars

C9_Witness ==
    /\ WrongArgCount /\ exited /\ exitCode = 1
    /\ Len(osArgs) = 5

\* The last and the first place of key k in a sequence of records.
LastPlace(servers, k) ==
    CHOOSE i \in PlacesOf(servers, k) : \A j \in PlacesOf(servers, k) : j <= i
FirstPlace(servers, k) ==
    CHOOSE i \in PlacesOf(servers, k) : \A j \in PlacesOf(servers, k) : i <= j

\* The number the last record of key k of a snapshot carries for a vector.
LastNumber(v, st, k) ==
    ExpectedField(v, RecordsFor(v, st)[LastPlace(RecordsFor(v, st), k)])

\* C2 as stated: whenever a scrape can be answered the registry is exactly
\* what the most recently completed pass left.
C2_RegistryIsCompletedPass ==
    (~exited /\ mainPc = "serving") => Gather = committed

\* C2 as amended: outside an update the registry is exactly what the most
\* recently completed pass left; during an update every gauge and child holds
\* what that pass left for it, or a number of the snapshot being applied, or
\* the 0 of a child just created, and no child of that pass is missing.
C2_CompletedPassOutsideUpdate ==
    /\ collPc /= "Updating" => Gather = committed
    /\ collPc = "Updating" =>
         /\ \A g \in GaugeNames :
              \/ gauges[g] = committedGauges[g]
              \/ Float64Value(gauges[g]) = ExpectedTotal(g, statistics.Totals)
         /\ \A v \in VecNames :
              /\ DOMAIN committedVecs[v] \subseteq DOMAIN gaugeVecs[v]
              /\ \A k \in DOMAIN gaugeVecs[v] :
                   \/ k \in DOMAIN committedVecs[v]
                        /\ gaugeVecs[v][k] = committedVecs[v][k]
                   \/ k \notin DOMAIN committedVecs[v]
                        /\ gaugeVecs[v][k] = ZeroValue
                        /\ k \in KeysOf(RecordsFor(v, statistics))
                   \/ Float64Value(gaugeVecs[v][k]) \in NumbersFor(v, statistics, k)

C2_Witness ==
    /\ ~exited /\ mainPc = "serving" /\ collPc = "Updating" /\ cycle = 2
    /\ \E v \in VecNames : \E k \in DOMAIN committedVecs[v] :
         gaugeVecs[v][k] /= committedVecs[v][k]

\* The totals of snapshot st are in the three unlabeled gauges.
TotalsApplied(st) ==
    \A g \in GaugeNames : Float64Value(gauges[g]) = ExpectedTotal(g, st.Totals)

\* Record r is in vector v: its key has a child holding r's field.
RecordApplied(v, r) ==
    /\ ExpectedLabels(r) \in DOMAIN gaugeVecs[v]
    /\ Float64Value(gaugeVecs[v][ExpectedLabels(r)]) = ExpectedField(v, r)

\* C3 as stated: once a pass has completed, the gauges hold the totals and
\* every record of the snapshot is in each of its seven vectors.
C3_EveryRecordApplied ==
    collPc = "Sleeping" =>
        /\ TotalsApplied(statistics)
        /\ \A v \in VecNames : \A i \in 1..Len(RecordsFor(v, statistics)) :
             RecordApplied(v, RecordsFor(v, statistics)[i])

\* C3 as amended: once a pass has completed, the gauges hold the totals and
\* every record that is the last of its key in its sequence is in each of its
\* seven vectors, whatever the registry held before.
C3_LastRecordApplied ==
    collPc = "Sleeping" =>
        /\ TotalsApplied(statistics)
        /\ \A v \in VecNames : \A i \in 1..Len(RecordsFor(v, statistics)) :
             IsLast(RecordsFor(v, statistics), i) =>
                 RecordApplied(v, RecordsFor(v, statistics)[i])

\* A second pass has overwritten the 100 of the first with 150, at a key the
\* second snapshot carries twice.
C3_Witness ==
    /\ collPc = "Sleeping" /\ cycle = 2
    /\ Len(statistics.VirtualServers) = 2
    /\ ExpectedLabels(statistics.VirtualServers[1])
         = ExpectedLabels(statistics.VirtualServers[2])
    /\ Len(previous.VirtualServers) >= 1
    /\ ExpectedLabels(previous.VirtualServers[1])
         = ExpectedLabels(statistics.VirtualServers[1])
    /\ previous.VirtualServers[1].TotalConnections = 100
    /\ statistics.VirtualServers[1].TotalConnections = 150

\* C4: no step removes a child, and a step changes a child's value only for
\* a key of the snapshot being applied; so once snapshot N+1 is applied,
\* a key of snapshot N that N+1 lacks still has, in every vector of its
\* family, the value N wrote.
C4_AppendOnlyLabels ==
    [][ /\ \A v \in VecNames : \A k \in DOMAIN gaugeVecs[v] :
             /\ k \in DOMAIN gaugeVecs'[v]
             /\ gaugeVecs'[v][k] /= gaugeVecs[v][k] =>
                    k \in KeysOf(RecordsFor(v, statistics))
        /\ (collPc' = "Sleeping" /\ cycle' >= 2) =>
             \A v \in VecNames :
               \A k \in KeysOf(RecordsFor(v, previous'))
                          \ KeysOf(RecordsFor(v, statistics')) :
                 /\ k \in DOMAIN gaugeVecs'[v]
                 /\ Float64Value(gaugeVecs'[v][k]) = LastNumber(v, previous', k) ]_vars

C4_Witness ==
    /\ collPc = "Sleeping" /\ cycle = 2
    /\ Len(statistics.VirtualServers) >= 1
    /\ KeysOf(previous.VirtualServers) \ KeysOf(statistics.VirtualServers) /= {}
    /\ KeysOf(previous.RealServers) \ KeysOf(statistics.RealServers) /= {}

\* The numbers the write in progress can put in gauge g, in child k of vector v.
WritingGauge(g) ==
    IF collPc = "Updating" /\ ~CurrentWrite.labeled /\ CurrentWrite.name = g
    THEN {ExpectedTotal(g, statistics.Totals)} ELSE {}
WritingChild(v, k) ==
    IF collPc = "Updating" /\ CurrentWrite.labeled /\ CurrentWrite.name = v
    THEN NumbersFor(v, statistics, k) ELSE {}

\* C5: whatever scrapes are interleaved with the writes, a gauge or a child
\* that a step changes goes from the value it held to the whole number the
\* collector is setting for it, never to a third value; a child a step
\* creates holds 0.
C5_NoTornReads ==
    [][ /\ \A g \in GaugeNames :
             \/ gauges'[g] = gauges[g]
             \/ Float64Value(gauges'[g]) \in WritingGauge(g)
        /\ \A v \in VecNames : \A k \in DOMAIN gaugeVecs'[v] :
             IF k \in DOMAIN gaugeVecs[v]
             THEN \/ gaugeVecs'[v][k] = gaugeVecs[v][k]
                  \/ Float64Value(gaugeVecs'[v][k]) \in WritingChild(v, k)
             ELSE gaugeVecs'[v][k] = ZeroValue ]_vars

\* A scrape was answered and the second update is half way: one unlabeled
\* gauge rewritten, a child of the first pass about to be.
C5_Witness ==
    /\ scraped /\ ~exited /\ collPc = "Updating" /\ cycle = 2
    /\ gauges["connsPerSec"] /= committedGauges["connsPerSec"]
    /\ CurrentWrite.labeled /\ HasChild
    /\ gaugeVecs[CurrentWrite.name][CurrentWrite.lvs] /= CurrentWrite.val

\* The writes of the pass already made, and the record the write in progress
\* belongs to.
WritesDone ==
    3 + 7 * (Len(statistics.VirtualServers) + Len(statistics.RealServers))
        - Len(pending)
CurrentRecord ==
    (statistics.VirtualServers \o statistics.RealServers)[((WritesDone - 3) \div 7) + 1]

\* The label values the program files the server (address, port) under.
LabelsOfKey(key) == LabelValues([Address |-> key[1], Port |-> key[2]])
\* Every server key with its label values.
KeyLabels == { <<key, LabelsOfKey(key)>> : key \in ServerKeys }

\* What the registry records in vector v under label values k.
Recorded(v, k) ==
    IF k \in DOMAIN gaugeVecs[v]
    THEN [present |-> TRUE, val |-> gaugeVecs[v][k]]
    ELSE [present |-> FALSE, val |-> ZeroValue]

\* C6: a write made for the record of one (address, port) leaves what every
\* vector records for every other (address, port) as it was.
C6_LabelIsolation ==
    [][ (collPc = "Updating" /\ CurrentWrite.labeled) =>
          LET r == CurrentRecord
          IN  \A kl \in KeyLabels :
                kl[1] /= <<r.Address, r.Port>> =>
                  \A v \in VecNames : Recorded(v, kl[2])' = Recorded(v, kl[2]) ]_vars

\* A record is being written in a vector that has a child of another server.
C6_Witness ==
    /\ collPc = "Updating" /\ CurrentWrite.labeled /\ HasChild
    /\ gaugeVecs[CurrentWrite.name][CurrentWrite.lvs] /= ZeroValue
    /\ \E kl \in KeyLabels :
         /\ kl[1] /= <<CurrentRecord.Address, CurrentRecord.Port>>
         /\ kl[1][1] = CurrentRecord.Address
         /\ Recorded(CurrentWrite.name, kl[2]).present

\* C7: a pass that applies the snapshot the pass before it applied leaves the
\* registry, children and values, as that pass left it.
C7_IdempotentOverwrite ==
    [][ (collPc = "Updating" /\ collPc' = "Sleeping" /\ cycle >= 2
            /\ statistics = previous) =>
          <<gauges', gaugeVecs'>> = committed ]_vars

\* The third pass has applied the snapshot of the second, over a registry
\* that holds a child only the first pass wrote.
C7_Witness ==
    /\ collPc = "Sleeping" /\ cycle = 3 /\ statistics = previous
    /\ Len(statistics.VirtualServers) = 1
    /\ \E k \in DOMAIN gaugeVecs["virtualServerTotalConnections"] :
         k \notin KeysOf(statistics.VirtualServers)

\* For vector v, key kNew holds the number of the snapshot being applied
\* while key kOld, also in that snapshot, holds the number of the snapshot
\* before it.
Mix(v, kNew, kOld) ==
    /\ kNew /= kOld
    /\ kNew \in DOMAIN gaugeVecs[v] /\ kOld \in DOMAIN gaugeVecs[v]
    /\ kOld \in KeysOf(RecordsFor(v, previous))
    /\ Float64Value(gaugeVecs[v][kNew]) = LastNumber(v, statistics, kNew)
    /\ kNew \in KeysOf(RecordsFor(v, previous)) =>
         LastNumber(v, previous, kNew) /= LastNumber(v, statistics, kNew)
    /\ (collPc = "Updating" /\ kNew \in DOMAIN committedVecs[v]) =>
         committedVecs[v][kNew] /= gaugeVecs[v][kNew]
    /\ Float64Value(gaugeVecs[v][kOld]) = LastNumber(v, previous, kOld)
    /\ LastNumber(v, previous, kOld) \notin NumbersFor(v, statistics, kOld)

\* C8 as stated: at no instant does a vector hold the new number at one key
\* of the current snapshot and the previous number at another.
C8_NoMixWithinMetric ==
    \A v \in VecNames :
      \A kNew, kOld \in KeysOf(RecordsFor(v, statistics)) : ~Mix(v, kNew, kOld)

\* C8 as amended: a vector holds the new number at one key of the current
\* snapshot and the previous number at another only while the update is in
\* progress, and then the key with the new number comes, in the snapshot's
\* sequence, before the key with the previous one.
C8_MixOnlyDuringUpdate ==
    \A v \in VecNames :
      \A kNew, kOld \in KeysOf(RecordsFor(v, statistics)) :
        Mix(v, kNew, kOld) =>
          /\ collPc = "Updating"
          /\ LastPlace(RecordsFor(v, statistics), kNew)
               < FirstPlace(RecordsFor(v, statistics), kOld)

C8_Witness ==
    /\ ~exited /\ mainPc = "serving" /\ scraped
    /\ \E kNew, kOld \in KeysOf(statistics.VirtualServers) :
         Mix("virtualServerTotalBytes", kNew, kOld)

\* C10: answering / or /metrics changes no gauge, no child and no value;
\* every step that changes the registry is a write of the collector.
C10_ReadsDoNotMutate ==
    [][ /\ (ServeMetrics \/ ServeRoot) => UNCHANGED registry
        /\ registry' /= registry => (SetGauge \/ WithLabelValues \/ SetChild) ]_vars

\* A scrape was answered over a registry the collector has filled.
C10_Witness ==
    /\ scraped /\ cycle >= 1 /\ collPc = "Sleeping"
    /\ gauges /= NewRegistryGauges
    /\ gaugeVecs /= NewRegistryVecs

\* The server is up and the collector is in one of the states of its loop.
LoopStates == {"Fetching", "Updating", "Sleeping"}
Listening == ~exited /\ mainPc = "serving"

\* C11: whenever the process is alive and listening, with the collector
\* waiting for GetStatistics, updating or sleeping, a scrape of /metrics and
\* a request to / can be answered at once, and answering leaves the
\* collector where it is.
C11_ScrapeNeverBlocked ==
    (Listening /\ collPc \in LoopStates) =>
        /\ ENABLED ServeMetrics
        /\ ENABLED ServeRoot
        /\ ENABLED (ServeMetrics /\ UNCHANGED collVars)

\* A scrape was answered and the second call of GetStatistics is outstanding.
C11_Witness ==
    /\ Listening /\ scraped /\ collPc = "Fetching" /\ cycle = 2
    /\ ENABLED ServeMetrics

\* C12: until the first GetStatistics has returned, the three unlabeled
\* gauges read 0 and no vector has a child for any label values.
C12_FreshStart ==
    (cycle <= 1 /\ collPc \in {"NotStarted", "Idle", "Fetching"}) =>
        /\ \A g \in GaugeNames : Float64Value(gauges[g]) = 0
        /\ \A v \in VecNames : DOMAIN gaugeVecs[v] = {}

\* A scrape was answered while the first call of GetStatistics is outstanding.
C12_Witness ==
    /\ Listening /\ scraped /\ collPc = "Fetching" /\ cycle = 1

\* The order in which the collector changes state.
CollectorOrder ==
    { <<"NotStarted", "Idle">>, <<"Idle", "Fetching">>, <<"Fetching", "Updating">>,
      <<"Updating", "Sleeping">>, <<"Sleeping", "Fetching">> }

\* C13: the collector changes state only in the order Fetching, Updating,
\* Sleeping, Fetching; a call of GetStatistics is made only when none is
\* outstanding and, after the first, only from the sleep of the pass before,
\* with every write of that pass made; the sleep starts only once the last
\* write of the pass is made.
C13_StrictSequencing ==
    [][ /\ collPc' /= collPc => <<collPc, collPc'>> \in CollectorOrder
        /\ cycle' /= cycle =>
              /\ cycle' = cycle + 1
              /\ collPc /= "Fetching" /\ collPc' = "Fetching"
              /\ pending = <<>>
              /\ cycle >= 1 =>
                    /\ collPc = "Sleeping"
                    /\ TotalsApplied(statistics)
                    /\ \A v \in VecNames : \A i \in 1..Len(RecordsFor(v, statistics)) :
                         IsLast(RecordsFor(v, statistics), i) =>
                             RecordApplied(v, RecordsFor(v, statistics)[i])
        /\ (collPc' = "Fetching" /\ collPc /= "Fetching") => cycle' = cycle + 1
        /\ (collPc' = "Sleeping" /\ collPc /= "Sleeping") =>
              /\ pending' = <<>>
              /\ TotalsApplied(statistics)' ]_vars

\* The second call of GetStatistics is outstanding, after a completed pass.
C13_Witness ==
    /\ ~exited /\ collPc = "Fetching" /\ cycle = 2
    /\ TotalsApplied(statistics)
    /\ committedGauges /= NewRegistryGauges

\* C16: while a call of GetStatistics is outstanding, every step other than
\* its return leaves the collector waiting for it: no other call is made, no
\* gauge, child or value changes, and if the process ends it is serverRun
\* that ended it, not the collector.
C16_NoFetchTimeout ==
    [][ (~exited /\ collPc = "Fetching"
            /\ ~GetStatisticsReturns(Snapshots) /\ ~GetStatisticsFails) =>
          /\ collPc' = "Fetching" /\ cycle' = cycle
          /\ statistics' = statistics /\ pending' = pending
          /\ registry' = registry
          /\ exited' => (ListenAndServeFails /\ ~FetchErrorLogged') ]_vars

\* The process ended, by serverRun's return, with a call outstanding.
C16_Witness ==
    /\ exited /\ exitCode = 0 /\ collPc = "Fetching" /\ cycle = 2
    /\ ~FetchErrorLogged

\* The label keys expected for the servers of the completed passes, per family.
AppliedKeys(v) ==
    LET servers == IF v \in VirtualServerVecs THEN applied.VirtualServers
                   ELSE applied.RealServers
    IN  { <<k[1], DecimalOf[k[2]]>> : k \in servers }

\* C18: whenever the collector is not in the middle of an update, each of
\* the seven vectors of a family has exactly the keys of the servers of that
\* family in the snapshots of the completed passes; no step removes a key,
\* and a key a vector holds is of a completed pass or of the snapshot being
\* applied.
C18_KeySets ==
    /\ [](collPc /= "Updating" =>
            \A v \in VecNames : DOMAIN gaugeVecs[v] = AppliedKeys(v))
    /\ [](\A v \in VecNames :
            DOMAIN gaugeVecs[v] \subseteq
                AppliedKeys(v) \cup KeysOf(RecordsFor(v, statistics)))
    /\ [][\A v \in VecNames : DOMAIN gaugeVecs[v] \subseteq DOMAIN gaugeVecs'[v]]_vars

\* Three passes are complete: two virtual servers and a real server applied,
\* the last snapshot carrying one of them only.
C18_Witness ==
    /\ collPc = "Sleeping" /\ cycle = 3
    /\ Cardinality(applied.VirtualServers) = 2
    /\ Cardinality(applied.RealServers) = 1
    /\ DOMAIN gaugeVecs["virtualServerBytesRead"] /= KeysOf(statistics.VirtualServers)

\* The keys a sequence of records carries more than once.
DuplicatedKeys(servers) ==
    { k \in KeysOf(servers) : Cardinality(PlacesOf(servers, k)) >= 2 }

\* C19: once a pass has completed, for a key its snapshot carries several
\* times in one sequence, each of the seven vectors holds at that key the
\* field of the last of those records, and the vector has one entry per
\* server applied: the repeated records made no entry of their own.
C19_LastDuplicateWins ==
    collPc = "Sleeping" =>
        \A v \in VecNames :
            \A k \in DuplicatedKeys(RecordsFor(v, statistics)) :
                /\ k \in DOMAIN gaugeVecs[v]
                /\ Float64Value(gaugeVecs[v][k]) = LastNumber(v, statistics, k)
                /\ Cardinality(DOMAIN gaugeVecs[v])
                     = Cardinality(IF v \in VirtualServerVecs
                                   THEN applied.VirtualServers
                                   ELSE applied.RealServers)

\* A pass has completed whose snapshot carries one virtual server twice,
\* over a registry that held another.
C19_Witness ==
    /\ collPc = "Sleeping" /\ cycle = 2
    /\ DuplicatedKeys(statistics.VirtualServers) /= {}
    /\ Cardinality(DOMAIN gaugeVecs["virtualServerTotalPackets"]) = 2

\* The positional arguments of the command line, as the argument count
\* check counts them.
Positional == CobraArgs(osArgs)

\* C15: once the argument count check has passed and the client is built,
\* its endpoint, user and password are the first, second and third
\* positional argument, wherever the flags stand on the command line.
C15_CredentialWiring ==
    mainPc \in {"listen", "serving"} =>
        /\ client.Endpoint = Positional[1]
        /\ client.User = Positional[2]
        /\ client.Password = Positional[3]

\* C17: a process that has ended has reported the failure that ended it,
\* usage or the fetch error, and has ended with a status other than 0.
C17_NoErrorSwallowed ==
    exited =>
        /\ exitCode /= 0
        /\ "usage" \in output \/ FetchErrorLogged

\* The collector completes passes again and again.
PassesForever == []<>(collPc = "Updating") /\ []<>(collPc = "Sleeping")

\* C14 as stated: once the loop is entered and as long as no call of
\* GetStatistics fails, passes complete again and again, and the process
\* does not end with the collector in its loop unless a fetch error is logged.
C14_LoopNeverStops ==
    /\ (<>(collPc \in LoopStates) /\ [](~FetchErrorLogged)) => PassesForever
    /\ [][ (collPc \in LoopStates /\ ~exited /\ exited') => FetchErrorLogged' ]_vars

\* C14 as amended: once the loop is entered and as long as no call of
\* GetStatistics fails and serverRun does not return, passes complete again
\* and again; the collector stays in its loop, and the process ends with the
\* collector in its loop only on a fetch error or on serverRun's return from
\* ListenAndServe.
C14_LoopRunsWhileProcessLives ==
    /\ (<>(collPc \in LoopStates) /\ [](~FetchErrorLogged /\ ~exited))
          => PassesForever
    /\ [][ (collPc \in LoopStates /\ ~exited) =>
              /\ collPc' \in LoopStates
              /\ exited' => (FetchErrorLogged' \/ ListenAndServeFails) ]_vars

\* The pass that reaches the cap of the count has completed over the
\* registry of the passes before it, the process alive and serving.
C14_Witness ==
    /\ Listening /\ collPc = "Sleeping" /\ cycle = MaxCyclesLive
    /\ statistics.VirtualServers /= <<>>
    /\ applied.RealServers /= {}

====
